---- MODULE Spec2Model ----
(***************************************************************************)
(* Model of src/src/skybrightness.c: the session preparer                  *)
(* skybrightness_prepare and the luminance evaluator                       *)
(* skybrightness_get_luminance.                                            *)
(*                                                                         *)
(* The C code computes in IEEE-754 single precision.  A float is modelled  *)
(* as a pair <<m, e>> standing for m * 2^e, where m is a signed integer    *)
(* with 2^23 <= |m| < 2^24 (a normalised 24 bit significand) or m = 0.     *)
(* The four arithmetic operations round to nearest, ties to even, as the   *)
(* hardware does.  The exponent is unbounded: overflow to infinity and     *)
(* gradual underflow are not modelled, and the inputs are kept finite.     *)
(***************************************************************************)
EXTENDS Integers, Sequences, FiniteSets, TLC

(***************************************************************************)
(* Single precision arithmetic                                             *)
(***************************************************************************)
Pow2(n) == 2 ^ n

Abs(x) == IF x < 0 THEN -x ELSE x

Sgn(x) == IF x < 0 THEN -1 ELSE 1

Len4(w) == IF w < 4 THEN (IF w < 2 THEN w ELSE 2) ELSE (IF w < 8 THEN 3 ELSE 4)

\* Number of bits of the natural number w (0 for 0).
RECURSIVE BitLen(_)
BitLen(w) == IF w < 16 THEN Len4(w) ELSE 4 + BitLen(w \div 16)

FZero == <<0, 0>>

F(m, e) == <<m, e>>

FOne == F(8388608, -23)

\* The float of magnitude r and sign sg.
Signed(sg, r) == <<sg * r[1], r[2]>>

NormCarry(q, e) == IF q = 16777216 THEN <<8388608, e + 1>> ELSE <<q, e>>

\* Round to nearest, ties to even: q the kept bits, rem the dropped ones.
NormNearest(q, rem, half, e) ==
    NormCarry(IF rem > half \/ (rem = half /\ q % 2 = 1) THEN q + 1 ELSE q, e)

NormDrop(w, e, d) == NormNearest(w \div Pow2(d), w % Pow2(d), Pow2(d - 1), e + d)

NormPlace(w, e, L) ==
    IF L <= 24 THEN <<w * Pow2(24 - L), e - (24 - L)>> ELSE NormDrop(w, e, L - 24)

\* The float nearest to w * 2^e, for a natural w < 2^31 whose lowest bit may
\* stand for discarded lower bits (then at least two bits are dropped here).
Norm(w, e) == IF w = 0 THEN FZero ELSE NormPlace(w, e, BitLen(w))

FNeg(a) == <<-a[1], a[2]>>

FAbs(a) == <<Abs(a[1]), a[2]>>

\* An integer as a float ((float)n).
FInt(n) == Signed(Sgn(n), Norm(Abs(n), 0))

\* a * 2^k, exact.
FScale2(a, k) == IF a[1] = 0 THEN a ELSE <<a[1], a[2] + k>>

\* w, its lowest bit set when lost bits were not all zero.
Jam(w, lost) == IF lost = 0 \/ w % 2 = 1 THEN w ELSE w + 1

\* x shifted right by d bits, a lost one bit kept in the lowest bit.
ShiftJam(x, d) ==
    IF d = 0 THEN x
    ELSE IF d > 30 THEN (IF x = 0 THEN 0 ELSE 1)
    ELSE Jam(x \div Pow2(d), x % Pow2(d))

AddSum(S, e) == Signed(Sgn(S), Norm(Abs(S), e))

FAddOrdered(a, b) ==
    \* a # 0, b # 0, a[2] >= b[2]; three guard bits
    AddSum(a[1] * 8 + Sgn(b[1]) * ShiftJam(Abs(b[1]) * 8, a[2] - b[2]), a[2] - 3)

FAdd(a, b) ==
    IF a[1] = 0 THEN b
    ELSE IF b[1] = 0 THEN a
    ELSE FAddOrdered(IF a[2] >= b[2] THEN a ELSE b, IF a[2] >= b[2] THEN b ELSE a)

FSub(a, b) == FAdd(a, FNeg(b))

\* The 48 bit product of two significands, from their 12 bit halves.
MulRound(hi, lo, sg, e) ==
    Signed(sg, Norm(Jam(hi * 64 + lo \div 262144, lo % 262144), e + 18))

MulWide(hh, mid, t, sg, e) ==
    MulRound(hh + mid \div 4096 + t \div 16777216, t % 16777216, sg, e)

MulPartial(hh, mid, ll, sg, e) == MulWide(hh, mid, ll + (mid % 4096) * 4096, sg, e)

MulHalves(xh, xl, yh, yl, sg, e) ==
    MulPartial(xh * yh, xh * yl + xl * yh, xl * yl, sg, e)

MulSplit(x, y, sg, e) ==
    MulHalves(x \div 4096, x % 4096, y \div 4096, y % 4096, sg, e)

FMul(a, b) ==
    IF a[1] = 0 \/ b[1] = 0 THEN FZero
    ELSE MulSplit(Abs(a[1]), Abs(b[1]), Sgn(a[1]) * Sgn(b[1]), a[2] + b[2])

\* Long division: n more quotient bits from <<quotient, remainder, divisor>>.
DivStep(qr, n) ==
    <<qr[1] * n + (qr[2] * n) \div qr[3], (qr[2] * n) % qr[3], qr[3]>>

DivRound(qr, sg, e) ==
    Signed(sg, Norm(qr[1] * 2 + (IF qr[2] = 0 THEN 0 ELSE 1), e - 27))

\* 1 + 7 + 7 + 6 + 6 quotient bits and a sticky bit
DivLong(x, y, sg, e) ==
    DivRound(DivStep(DivStep(DivStep(DivStep(<<x \div y, x % y, y>>, 128), 128), 64), 64),
             sg, e)

FDiv(a, b) ==
    \* b # 0
    IF a[1] = 0 THEN FZero
    ELSE DivLong(Abs(a[1]), Abs(b[1]), Sgn(a[1]) * Sgn(b[1]), a[2] - b[2])

\* a < b
FLt(a, b) == FSub(a, b)[1] < 0

FGt(a, b) == FLt(b, a)

FLe(a, b) == ~FLt(b, a)

RoundHalf(q, r, p, sg) == sg * (IF 2 * r >= p THEN q + 1 ELSE q)

RoundParts(x, p, sg) == RoundHalf(x \div p, x % p, p, sg)

\* The integer nearest to a (|a| < 2^30).
FRoundInt(a) ==
    IF a[2] >= 0 THEN a[1] * Pow2(a[2])
    ELSE IF a[2] < -25 THEN 0
    ELSE RoundParts(Abs(a[1]), Pow2(-a[2]), Sgn(a[1]))

\* c[i] + r*(c[i+1] + r*(... + r*c[Len(c)])), each step rounded to float.
RECURSIVE Horner(_, _, _)
Horner(c, r, i) ==
    IF i = Len(c) THEN c[i] ELSE FAdd(c[i], FMul(r, Horner(c, r, i + 1)))

(***************************************************************************)
(* <math.h>.  The C library's single precision functions are not part of   *)
(* the repository; they are modelled by argument reduction and a truncated *)
(* power series evaluated in single precision, which agrees with the C     *)
(* library to within a few units in the last place.                        *)
(***************************************************************************)
LN2_HI == F(11628544, -24)      \* 0.693115234375

LN2_LO == F(8781300, -38)       \* 3.1946183e-05

INV_LN2 == F(12102203, -23)     \* 1.442695

\* 1, 1, 1/2!, 1/3!, ..., 1/7!
ExpCoef == <<FOne, FOne, F(8388608, -24), F(11184811, -26),
             F(11184811, -28), F(8947849, -30),
             F(11930465, -33), F(13634817, -36)>>

\* exp(k ln 2 + r) = 2^k exp r
ExpReduced(x, k, kf) ==
    FScale2(Horner(ExpCoef, FSub(FSub(x, FMul(kf, LN2_HI)), FMul(kf, LN2_LO)), 1), k)

ExpScaled(x, k) == ExpReduced(x, k, FInt(k))

expf(x) == ExpScaled(x, FRoundInt(FMul(x, INV_LN2)))

\* 1, 1/3, 1/5, ..., 1/11
LogCoef == <<FOne, F(11184811, -25), F(13421773, -26),
             F(9586981, -26), F(14913081, -27),
             F(12201612, -27)>>

\* log f = 2 s (1 + s^2 / 3 + s^4 / 5 + ...) for s = (f - 1) / (f + 1)
LogSeries(s) == FMul(FScale2(s, 1), Horner(LogCoef, FMul(s, s), 1))

LogMantissa(f) == LogSeries(FDiv(FSub(f, FOne), FAdd(f, FOne)))

LogSum(Ef, lf) == FAdd(FMul(Ef, LN2_HI), FAdd(lf, FMul(Ef, LN2_LO)))

\* x = 2^E f with f in [sqrt(1/2), sqrt 2)
LogSplit(m, e, low) ==
    LogSum(FInt(IF low THEN e + 23 ELSE e + 24),
           LogMantissa(IF low THEN <<m, -23>> ELSE <<m, -24>>))

logf(x) ==
    \* x > 0
    LogSplit(x[1], x[2], x[1] < 11863283)

PIO2_1 == F(13172736, -23)      \* 1.5703125

PIO2_2 == F(16621568, -35)      \* 4.8375130e-04

PIO2_3 == F(10625385, -47)      \* 7.5497901e-08

TWO_OVER_PI == F(10680707, -24) \* 0.63661975

\* -1/3!, 1/5!, -1/7!, 1/9!
SinCoef == <<F(-11184811, -26), F(8947849, -30),
             F(-13634817, -36), F(12119837, -42)>>

\* 1/4!, -1/6!, 1/8!, -1/10!
CosCoef == <<F(11184811, -28), F(-11930465, -33),
             F(13634817, -39), F(-9695870, -45)>>

SinOdd(r, z) == FAdd(r, FMul(FMul(r, z), Horner(SinCoef, z, 1)))

\* sin r for |r| <= pi/4
SinPoly(r) == SinOdd(r, FMul(r, r))

CosEven(z) ==
    FSub(FOne, FSub(FScale2(z, -1), FMul(FMul(z, z), Horner(CosCoef, z, 1))))

\* cos r for |r| <= pi/4
CosPoly(r) == CosEven(FMul(r, r))

ReduceRest(x, k, kf) ==
    <<k, FSub(FSub(FSub(x, FMul(kf, PIO2_1)), FMul(kf, PIO2_2)), FMul(kf, PIO2_3))>>

ReduceQuarter(x, k) == ReduceRest(x, k, FInt(k))

\* x = k*pi/2 + r with |r| <= pi/4, as <<k, r>>
ReducePiO2(x) == ReduceQuarter(x, FRoundInt(FMul(x, TWO_OVER_PI)))

\* sin(q*pi/2 + r) for |r| <= pi/4 and q in 0..3:
\* sin r, cos r, -sin r, -cos r
SinQuadrant(q, r) ==
    Signed(IF q >= 2 THEN -1 ELSE 1, IF q % 2 = 0 THEN SinPoly(r) ELSE CosPoly(r))

SinShifted(kr, shift) == SinQuadrant((kr[1] + shift) % 4, kr[2])

sinf(x) == SinShifted(ReducePiO2(x), 0)

cosf(x) == SinShifted(ReducePiO2(x), 1)

SqrtStep(x, y) == FScale2(FAdd(y, FDiv(x, y)), -1)

\* Newton's iteration for the square root of u in [1, 4), from a linear guess
SqrtNewton(u) ==
    SqrtStep(u, SqrtStep(u, SqrtStep(u, SqrtStep(u,
        FAdd(FOne, FDiv(FSub(u, FOne), FInt(3)))))))

\* x = 4^h u
SqrtSplit(m, e, odd) ==
    FScale2(SqrtNewton(IF odd THEN <<m, -22>> ELSE <<m, -23>>),
            IF odd THEN (e + 22) \div 2 ELSE (e + 23) \div 2)

sqrtf(x) ==
    \* x >= 0
    IF x[1] = 0 THEN FZero ELSE SqrtSplit(x[1], x[2], (x[2] + 23) % 2 = 1)

fabsf(x) == FAbs(x)

powf(x, y) ==
    \* x > 0, or y = 2
    IF y = FInt(2) THEN FMul(x, x)
    ELSE IF x = FOne THEN FOne
    ELSE expf(FMul(y, logf(x)))

(***************************************************************************)
(* Literals and constants of skybrightness.c                               *)
(***************************************************************************)
Pow10(p) == 10 ^ p

\* The float written n * 10^-p in decimal (n < 2^24, p <= 9): n and 10^p are
\* floats exactly, so the rounded quotient is the literal's value.
Lit(n, p) == FDiv(FInt(n), FInt(Pow10(p)))

\* max() of utils/utils.h, as lines 117 and 119 use it.
max(a, b) == IF FGt(a, b) THEN a ELSE b

pow2(v) == FMul(v, v)

pow4(v) == FMul(FMul(FMul(v, v), v), v)

\* x *= x, n times (lines 22-24)
RECURSIVE Squared(_, _)
Squared(x, n) == IF n = 0 THEN x ELSE Squared(FMul(x, x), n - 1)

fast_expf(v) == Squared(FAdd(FOne, FDiv(v, FInt(1024))), 10)

LOG10F == F(9657742, -22)       \* logf(10.f) = 2.3025851

exp10f(v) == expf(FMul(v, LOG10F))

fast_exp10f(v) == fast_expf(FMul(v, LOG10F))

PI_F == Lit(314159, 5)

DR == FDiv(FInt(180), PI_F)

RD == FDiv(PI_F, FInt(180))

NLAMBERT_TO_CDM2 == Lit(3183, 9)

WA == Lit(55, 2)

MO == FNeg(Lit(1105, 2))

OZ == Lit(31, 3)

WT == Lit(31, 3)

BO == F(14757395, -67)          \* 1.0E-13f

CM == FZero

MS == FNeg(Lit(2674, 2))

SENTINEL == FInt(40)

BL_UNIT == F(10483654, -73)     \* 1.11E-15f

(***************************************************************************)
(* skybrightness_t and skybrightness_prepare                               *)
(***************************************************************************)
Fields == <<"Y", "M", "AM", "LA", "AL", "TE", "RH", "ZM", "ZS",
            "k_BT", "k_BM", "k_BN", "K", "XM", "XS">>

\* A session nothing was stored in yet (every field zero).
Blank == [f \in {Fields[i] : i \in DOMAIN Fields} |-> FZero]

\* Line 79
LT(LA) == FMul(LA, RD)

\* Line 80
RA(M) == FMul(FMul(FSub(M, FInt(3)), FInt(30)), RD)

\* Line 81
SL(LA) == IF FGt(LA, FZero) THEN FOne ELSE FNeg(FOne)

\* Line 84
KR(AL) ==
    FMul(FMul(Lit(1066, 4), expf(FDiv(FMul(FInt(-1), AL), FInt(8200)))),
         powf(FDiv(WA, Lit(55, 2)), FInt(-4)))

\* Line 85
KA85(AL) ==
    FMul(FMul(Lit(1, 1), powf(FDiv(WA, Lit(55, 2)), FNeg(Lit(13, 1)))),
         expf(FDiv(FMul(FInt(-1), AL), FInt(1500))))

\* Lines 86-87
KA(AL, RH, sl, ra) ==
    FMul(FMul(KA85(AL),
              powf(FSub(FOne, FDiv(Lit(32, 2), logf(FDiv(RH, FInt(100))))),
                   Lit(133, 2))),
         FAdd(FOne, FMul(FMul(Lit(33, 2), sl), sinf(ra))))

\* Line 88
KO(lt, ra) ==
    FDiv(FMul(OZ, FAdd(FInt(3),
                       FMul(Lit(4, 1),
                            FSub(FMul(lt, cosf(ra)), cosf(FMul(FInt(3), lt)))))),
         FInt(3))

\* Line 89
KW(AL, RH, TE) ==
    FMul(FMul(FMul(FMul(WT, Lit(94, 2)), FDiv(RH, FInt(100))),
              expf(FDiv(TE, FInt(15)))),
         expf(FDiv(FMul(FInt(-1), AL), FInt(8200))))

\* Line 90
K90(AL, RH, TE, lt, ra, sl) ==
    FAdd(FAdd(FAdd(KR(AL), KA(AL, RH, sl, ra)), KO(lt, ra)), KW(AL, RH, TE))

\* Lines 70-75 and 79-90: the extinction coefficient from the stored inputs.
ExtinctionK(sb) == K90(sb.AL, sb.RH, sb.TE, LT(sb.LA), RA(sb.M), SL(sb.LA))

\* 1 / (c + .025 exp(-11 c)) for c the cosine of a zenith distance
SecantOf(c) == FDiv(FOne, FAdd(c, FMul(Lit(25, 3), expf(FMul(FInt(-11), c)))))

\* Lines 94 and 99, Zd in degrees.
Secant(Zd) == SecantOf(cosf(FMul(Zd, RD)))

\* A fault to compare with: the clamp applied from 90 degrees on.
AirmassFrom90(Zd) == IF FLe(FInt(90), Zd) THEN SENTINEL ELSE Secant(Zd)

\* Lines 94-95 and 99-100: the air mass of a body at zenith distance Zd.
Airmass(Zd) == IF FGt(Zd, FInt(90)) THEN SENTINEL ELSE Secant(Zd)

\* Lines 55-66: what prepare stores first, in program order.
InputStores(a) ==
    << <<"Y", FInt(a.year)>>,
       <<"M", FInt(a.month)>>,
       <<"AM", FMul(a.moon_phase, DR)>>,
       <<"LA", FMul(a.latitude, DR)>>,
       <<"AL", a.altitude>>,
       <<"TE", a.temperature>>,
       <<"RH", a.relative_humidity>>,
       <<"ZM", FMul(a.dist_moon_zenith, DR)>>,
       <<"ZS", FMul(a.dist_sun_zenith, DR)>>,
       <<"k_BT", a.twilight_coef>>,
       <<"k_BM", a.moon_brightness_coef>>,
       <<"k_BN", a.darknight_brightness_coef>> >>

\* The session after the stores st[1..n], in order.
RECURSIVE Store(_, _, _)
Store(sb, st, n) ==
    IF n = 0 THEN sb
    ELSE [Store(sb, st, n - 1) EXCEPT ![st[n][1]] = st[n][2]]

\* Lines 91, 96, 101: the i-th derived field, from the stored inputs read
\* back on lines 70-77.
DerivedStep(sb, i) ==
    IF i = 1 THEN <<"K", ExtinctionK(sb)>>
    ELSE IF i = 2 THEN <<"XM", Airmass(sb.ZM)>>
    ELSE <<"XS", Airmass(sb.ZS)>>

DerivedStores(sb) == <<DerivedStep(sb, 1), DerivedStep(sb, 2), DerivedStep(sb, 3)>>

\* A fault to compare with: the last derived field is not stored.
PrepareDerivedStale(sb) == Store(sb, DerivedStores(sb), 2)

\* Lines 68-101
PrepareDerived(sb) == Store(sb, DerivedStores(sb), 3)

\* The session sb after skybrightness_prepare(&sb, a...).
skybrightness_prepare(sb, a) == PrepareDerived(Store(sb, InputStores(a), 12))

(***************************************************************************)
(* skybrightness_get_luminance                                             *)
(***************************************************************************)
\* A fault to compare with: the clamp applied to the radians.
ClampDistRadians(dist) == max(dist, FOne)

\* Lines 117 and 119: an angular distance in degrees, at least 1.
ClampDist(dist) == max(FMul(dist, DR), FOne)

XOf(c) == FDiv(FOne, FAdd(c, FMul(Lit(25, 3), fast_expf(FMul(FInt(-11), c)))))

\* Line 130: the air mass of the target direction, ZZ in radians.
TargetAirmass(ZZ) == XOf(cosf(ZZ))

\* Line 135
BN135(Y) ==
    FMul(BO, FAdd(FOne, FMul(Lit(3, 1),
        cosf(FDiv(FMul(Lit(6283, 3), FSub(Y, FInt(1992))), FInt(11))))))

\* Line 136
BN136(BN, ZZ) ==
    FMul(BN, FAdd(Lit(4, 1), FDiv(Lit(6, 1),
        sqrtf(FSub(FOne, FMul(Lit(96, 2), powf(sinf(ZZ), FInt(2))))))))

\* Line 137
BN137(BN, K, X) == FMul(BN, fast_exp10f(FMul(FMul(FNeg(Lit(4, 1)), K), X)))

\* A fault to compare with: the coefficient not applied.
BN138Unscaled(BN, k_BN) == BN

\* Line 138
BN138(BN, k_BN) == FMul(BN, k_BN)

\* Lines 135-138: dark night sky brightness.
DarkNight(Y, ZZ, K, X, k_BN) == BN138(BN137(BN136(BN135(Y), ZZ), K, X), k_BN)

\* Line 141
MM141(AM) ==
    FAdd(FAdd(FNeg(Lit(1273, 2)), FMul(Lit(26, 3), fabsf(AM))),
         FMul(Lit(4, 9), pow4(AM)))

\* Line 142
MM142(MM) == FAdd(MM, CM)

\* Line 143
C3(K, XM) == fast_exp10f(FMul(FMul(FNeg(Lit(4, 1)), K), XM))

\* Line 144
FM144(RM) ==
    FAdd(FDiv(FInt(62000000), pow2(RM)), exp10f(FSub(Lit(615, 2), FDiv(RM, FInt(40)))))

\* Line 145
FM145(FM, RM) ==
    FAdd(FM, FMul(exp10f(Lit(536, 2)), FAdd(Lit(106, 2), pow2(cosf(FMul(RM, RD))))))

\* Line 146
BM146(MM) == exp10f(FMul(FNeg(Lit(4, 1)), FAdd(FSub(MM, MO), Lit(4327, 2))))

\* Line 147
BM147(BM, K, X) ==
    FMul(BM, FSub(FOne, exp10f(FMul(FMul(FNeg(Lit(4, 1)), K), X))))

\* Line 148
BM148(BM, FM, c3) ==
    FMul(BM, FAdd(FMul(FM, c3), FMul(FInt(440000), FSub(FOne, c3))))

\* Line 151
BM151(BM, k_BM) == FMul(BM, k_BM)

\* Lines 141-151: moonlight brightness.
Moonlight(AM, RM, K, X, XM, k_BM) ==
    BM151(BM148(BM147(BM146(MM142(MM141(AM))), K, X),
                FM145(FM144(RM), RM), C3(K, XM)),
          k_BM)

\* Line 154
HS(ZS) == FSub(FInt(90), ZS)

\* Line 155
BT155(hs, Z, K) ==
    exp10f(FMul(FNeg(Lit(4, 1)),
                FSub(FSub(FAdd(FSub(MS, MO), Lit(325, 1)), hs),
                     FDiv(Z, FMul(FInt(360), K)))))

\* Line 156
BT156(BT, RS, K, X) ==
    FMul(FMul(BT, FDiv(FInt(100), RS)),
         FSub(FOne, exp10f(FMul(FMul(FNeg(Lit(4, 1)), K), X))))

\* Line 157
BT157(BT, k_BT) == FMul(BT, k_BT)

\* Lines 154-157: twilight brightness.
Twilight(ZS, RS, Z, K, X, k_BT) == BT157(BT156(BT155(HS(ZS), Z, K), RS, K, X), k_BT)

\* Line 160
C4(K, XS) == fast_exp10f(FMul(FMul(FNeg(Lit(4, 1)), K), XS))

\* Line 161
FS161(RS) ==
    FAdd(FDiv(FInt(62000000), pow2(RS)),
         fast_exp10f(FSub(Lit(615, 2), FDiv(RS, FInt(40)))))

\* Line 162
FS162(FS, RS) ==
    FAdd(FS, FMul(fast_exp10f(Lit(536, 2)),
                  FAdd(Lit(106, 2), pow2(cosf(FMul(RS, RD))))))

\* Line 163
BD163 == exp10f(FMul(FNeg(Lit(4, 1)), FAdd(FSub(MS, MO), Lit(4327, 2))))

\* Line 164
BD164(BD, K, X) ==
    FMul(BD, FSub(FOne, exp10f(FMul(FMul(FNeg(Lit(4, 1)), K), X))))

\* Line 165
BD165(BD, FS, c4) ==
    FMul(BD, FAdd(FMul(FS, c4), FMul(FInt(440000), FSub(FOne, c4))))

\* Lines 160-165: daylight brightness.
Daylight(RS, K, X, XS) ==
    BD165(BD164(BD163, K, X), FS162(FS161(RS), RS), C4(K, XS))

\* A fault to compare with: the larger of twilight and daylight added.
TotalSkyLarger(BN, BT, BD) == FAdd(BN, max(BT, BD))

\* Lines 168-171: total sky brightness before the Moon term.
TotalSky(BN, BT, BD) == IF FGt(BD, BT) THEN FAdd(BN, BT) ELSE FAdd(BN, BD)

\* Line 172: the Moon fully above the blend region.
MoonFull(B, BM, ZM) == IF FLt(ZM, FInt(80)) THEN FAdd(B, BM) ELSE B

\* Line 176: the Moon within 10 degrees of the horizon.
MoonGraduated(B, BM, ZM) ==
    IF FGt(ZM, FInt(80)) /\ FLe(ZM, FInt(90))
    THEN FAdd(B, FDiv(FMul(BM, FSub(FInt(90), ZM)), FInt(10)))
    ELSE B

\* Lines 172-176.
MoonBlend(B, BM, ZM) == MoonGraduated(MoonFull(B, BM, ZM), BM, ZM)

\* Lines 181-183: nanolamberts, then cd/m2.
ToCdm2(B) == FMul(FDiv(B, BL_UNIT), NLAMBERT_TO_CDM2)

\* A fault to compare with: line 138 scaling the session's coefficient
\* (sb->k_BN *= BN) in place of the local.
ReturnedScaled(sb, RM, RS, BN, BM, BT, BD, B0, B) ==
    [sb |-> [sb EXCEPT !.k_BN = FMul(@, BN)], ZM |-> sb.ZM, RM |-> RM, RS |-> RS, BN |-> BN,
     BM |-> BM, BT |-> BT, BD |-> BD, B0 |-> B0, B |-> B, ret |-> ToCdm2(B)]

\* Lines 181-183: what the call leaves: its locals, its return value ret, and
\* the session, which it only read (sb points to const; no line assigns
\* through it).
Returned(sb, RM, RS, BN, BM, BT, BD, B0, B) ==
    [sb |-> sb, ZM |-> sb.ZM, RM |-> RM, RS |-> RS, BN |-> BN, BM |-> BM,
     BT |-> BT, BD |-> BD, B0 |-> B0, B |-> B, ret |-> ToCdm2(B)]

\* Lines 172-176
WithMoon(sb, RM, RS, BN, BM, BT, BD, B0) ==
    Returned(sb, RM, RS, BN, BM, BT, BD, B0, MoonBlend(B0, BM, sb.ZM))

\* Lines 168-171
WithTotal(sb, RM, RS, BN, BM, BT, BD) ==
    WithMoon(sb, RM, RS, BN, BM, BT, BD, TotalSky(BN, BT, BD))

\* Lines 135-165
WithTerms(sb, RM, RS, Z, ZZ, X) ==
    WithTotal(sb, RM, RS,
              DarkNight(sb.Y, ZZ, sb.K, X, sb.k_BN),
              Moonlight(sb.AM, RM, sb.K, X, sb.XM, sb.k_BM),
              Twilight(sb.ZS, RS, Z, sb.K, X, sb.k_BT),
              Daylight(RS, sb.K, X, sb.XS))

\* Line 130
WithAirmass(sb, RM, RS, Z, ZZ) == WithTerms(sb, RM, RS, Z, ZZ, TargetAirmass(ZZ))

\* Line 126
WithRadians(sb, RM, RS, Z) == WithAirmass(sb, RM, RS, Z, FMul(Z, RD))

\* The call skybrightness_get_luminance(&sb, q...).
skybrightness_get_luminance(sb, q) ==
    WithRadians(sb, ClampDist(q.moon_dist), ClampDist(q.sun_dist),
                FMul(q.zenith_dist, DR))

(***************************************************************************)
(* Inputs.  Angles are passed in radians (lines 57, 58, 62, 63, 117-122).  *)
(***************************************************************************)
RAD_80 == F(11712697, -23)      \* 1.39626229f, the float with RAD_80 * DR = 80.0f

RAD_90 == F(13176784, -23)      \* 1.57079506f, the float with RAD_90 * DR = 90.0f

RAD_1 == F(9370158, -29)        \* 0.0174532793f, the float with RAD_1 * DR = 1.0f

\* The float next below (d = -1) or next above (d = 1) the positive float a.
Neighbour(a, d) == Norm(a[1] + d, a[2])

\* A clear night with a bright Moon: the Moon 57 degrees from the zenith, the
\* Sun 149 degrees from it.
NightArgs ==
    [year |-> 2020, month |-> 6, moon_phase |-> Lit(25, 2),
     latitude |-> Lit(872, 3), altitude |-> FInt(100),
     temperature |-> FInt(15), relative_humidity |-> FInt(50),
     dist_moon_zenith |-> FInt(1), dist_sun_zenith |-> Lit(26, 1),
     twilight_coef |-> FOne, moon_brightness_coef |-> FOne,
     darknight_brightness_coef |-> FOne]

\* Another site, season and weather by day; no field as in NightArgs.
DayArgs ==
    [year |-> 2026, month |-> 12, moon_phase |-> Lit(2, 0),
     latitude |-> FNeg(Lit(6, 1)), altitude |-> FInt(2000),
     temperature |-> FInt(5), relative_humidity |-> FInt(80),
     dist_moon_zenith |-> Lit(174, 2), dist_sun_zenith |-> Lit(5, 1),
     twilight_coef |-> Lit(5, 1), moon_brightness_coef |-> FInt(2),
     darknight_brightness_coef |-> FInt(4)]

\* The arguments a with the Moon at zenith distance zm and the Sun at zs.
At(a, zm, zs) == [a EXCEPT !.dist_moon_zenith = zm, !.dist_sun_zenith = zs]

\* The night of NightArgs with the Moon below the horizon too.
MoonlessArgs == At(NightArgs, Lit(174, 2), Lit(26, 1))

\* The arguments a with darknight_brightness_coef doubled.
DoubledDarkNight(a) ==
    [a EXCEPT !.darknight_brightness_coef = FScale2(@, 1)]

Query(md, sd, zd) == [moon_dist |-> md, sun_dist |-> sd, zenith_dist |-> zd]

ZenithQuery == Query(Lit(157, 2), Lit(157, 2), FZero)

LowQuery == Query(Lit(3, 1), Lit(5, 1), FInt(1))

Sessions == {"A", "B"}

\* The calls of Spec.
PrepareArgs == {NightArgs, DayArgs}

QueryArgs == {ZenithQuery, LowQuery}

\* Zenith distances of the Moon (radians), increasing, around the blend
\* region 80..90 degrees and the horizon.
MoonZeniths ==
    <<FInt(1), Neighbour(RAD_80, -1), RAD_80, Neighbour(RAD_80, 1), Lit(148, 2),
      Neighbour(RAD_90, -1), RAD_90, Neighbour(RAD_90, 1), Lit(174, 2)>>

\* Zenith distances of the Sun (radians): day, horizon, night.
SunZeniths == {Lit(5, 1), RAD_90, Neighbour(RAD_90, 1), Lit(26, 1)}

\* Angular distances to the Moon or the Sun (radians) around 1 degree.
Dists ==
    {FZero, FNeg(Lit(2, 1)), Lit(1, 3), Neighbour(RAD_1, -1), RAD_1,
     Neighbour(RAD_1, 1), Lit(3, 1)}

Scenario(a, b, q, id) == [a |-> a, b |-> b, q |-> q, id |-> id]

NoScenario == Scenario(NightArgs, DayArgs, ZenithQuery, "none")

\* The inputs of SpecFn: the arguments of the prepare of session A and of
\* session B and the direction both are queried for.  They sweep one input
\* around the values the code compares it against.
Scenarios ==
    {Scenario(a, DoubledDarkNight(a), q, "doubling") :
        a \in {NightArgs, MoonlessArgs, DayArgs}, q \in QueryArgs}
    \cup
    {Scenario(At(NightArgs, MoonZeniths[i], Lit(26, 1)),
              At(NightArgs, MoonZeniths[i + 1], Lit(26, 1)), LowQuery, "moon") :
        i \in 1..(Len(MoonZeniths) - 1)}
    \cup
    {Scenario(At(NightArgs, FInt(1), zs), At(NightArgs, Lit(174, 2), zs),
              LowQuery, "sun") : zs \in SunZeniths}
    \cup
    {Scenario(NightArgs, DayArgs, Query(md, Lit(5, 1), Lit(5, 1)), "moon_dist") :
        md \in Dists}
    \cup
    {Scenario(NightArgs, DayArgs, Query(Lit(3, 1), sd, Lit(5, 1)), "sun_dist") :
        sd \in Dists}

(***************************************************************************)
(* State                                                                   *)
(***************************************************************************)
VARIABLES
    sb,         \* sb[s]: the skybrightness_t of session s
    lastArgs,   \* lastArgs[s]: <<a>> for the last prepare of s, <<>> before it
    overwrote,  \* overwrote[s]: the last prepare of s replaced other arguments
    firstQ,     \* firstQ[s]: <<call>> for the first query of s since its prepare
    lastQ,      \* lastQ[s]: <<call>> for the last query of s since its prepare
    scenario,   \* the inputs SpecFn drew
    shared,     \* SpecConc: the one skybrightness_t two threads use
    gen,        \* SpecConc: gen[f] is the number of the prepare that stored f last
    prep,       \* SpecConc: the thread calling skybrightness_prepare
    qry         \* SpecConc: the thread calling skybrightness_get_luminance

seqVars == <<sb, lastArgs, overwrote, firstQ, lastQ, scenario>>

concVars == <<shared, gen, prep, qry>>

vars == <<sb, lastArgs, overwrote, firstQ, lastQ, scenario, shared, gen, prep, qry>>

FieldSet == {Fields[i] : i \in DOMAIN Fields}

\* No call was made yet.
SeqIdle ==
    /\ sb = [s \in Sessions |-> Blank]
    /\ lastArgs = [s \in Sessions |-> <<>>]
    /\ overwrote = [s \in Sessions |-> FALSE]
    /\ firstQ = [s \in Sessions |-> <<>>]
    /\ lastQ = [s \in Sessions |-> <<>>]

ConcIdle ==
    /\ shared = Blank
    /\ gen = [f \in FieldSet |-> 0]
    /\ prep = [pc |-> 0, n |-> 0, a |-> NightArgs, hist |-> <<>>]
    /\ qry = [pc |-> 0, snap |-> Blank, tag |-> [f \in FieldSet |-> 0],
              overlap |-> FALSE, ret |-> FZero]

Init ==
    /\ SeqIdle
    /\ scenario = NoScenario
    /\ ConcIdle

(***************************************************************************)
(* Spec: any sequence of completed calls on two sessions                   *)
(***************************************************************************)
\* A fault to compare with: one session object behind every pointer.
WriteAllSessions(all, s, v) == [t \in DOMAIN all |-> v]

\* The functions write through the pointer they are given and nowhere else.
WriteSession(all, s, v) == [all EXCEPT ![s] = v]

\* What a completed query leaves to look at: its arguments, its locals and
\* its return value.
CallRecord(q, f) ==
    [q |-> q, ZM |-> f.ZM, RM |-> f.RM, RS |-> f.RS, BN |-> f.BN, BM |-> f.BM,
     BT |-> f.BT, BD |-> f.BD, B0 |-> f.B0, B |-> f.B, ret |-> f.ret]

\* skybrightness_prepare(&sb[s], a...)
SkybrightnessPrepare(s, a) ==
    /\ \E v \in {skybrightness_prepare(sb[s], a)} : sb' = WriteSession(sb, s, v)
    /\ lastArgs' = [lastArgs EXCEPT ![s] = <<a>>]
    /\ overwrote' = [overwrote EXCEPT ![s] = lastArgs[s] \notin {<<>>, <<a>>}]
    /\ firstQ' = [firstQ EXCEPT ![s] = <<>>]
    /\ lastQ' = [lastQ EXCEPT ![s] = <<>>]
    /\ UNCHANGED <<scenario, concVars>>

\* skybrightness_get_luminance(&sb[s], q...), on a prepared session
SkybrightnessGetLuminance(s, q) ==
    /\ lastArgs[s] # <<>>
    /\ \E f \in {skybrightness_get_luminance(sb[s], q)} :
          /\ sb' = WriteSession(sb, s, f.sb)
          /\ lastQ' = [lastQ EXCEPT ![s] = <<CallRecord(q, f)>>]
          /\ firstQ' = [firstQ EXCEPT ![s] = IF @ = <<>> THEN <<CallRecord(q, f)>> ELSE @]
    /\ UNCHANGED <<lastArgs, overwrote, scenario, concVars>>

Next ==
    \/ \E s \in Sessions, a \in PrepareArgs : SkybrightnessPrepare(s, a)
    \/ \E s \in Sessions, q \in QueryArgs : SkybrightnessGetLuminance(s, q)

Spec == Init /\ [][Next]_vars

(***************************************************************************)
(* SpecFn: the two functions on drawn inputs.  Session A is prepared with  *)
(* scenario.a and session B with scenario.b; both are queried for          *)
(* scenario.q.                                                             *)
(***************************************************************************)
ScenarioArgs(s) == IF s = "A" THEN scenario.a ELSE scenario.b

InitFn ==
    /\ SeqIdle
    /\ scenario \in Scenarios
    /\ ConcIdle

NextFn ==
    \/ \E s \in Sessions : SkybrightnessPrepare(s, ScenarioArgs(s))
    \/ \E s \in Sessions : SkybrightnessGetLuminance(s, scenario.q)

SpecFn == InitFn /\ [][NextFn]_vars

(***************************************************************************)
(* SpecConc: one thread calls skybrightness_prepare and another            *)
(* skybrightness_get_luminance on the same skybrightness_t, with no lock   *)
(* (the code has none).  Each store of lines 55-101 and each read of       *)
(* lines 115-157 is a step of its own; the steps of the two threads        *)
(* interleave freely.                                                      *)
(***************************************************************************)
MaxPrepares == 2

ConcArgs == {NightArgs, DayArgs}

ConcQuery == LowQuery

\* Number of stores of skybrightness_prepare: lines 55-66, 91, 96 and 101.
LastStore == Len(Fields)

\* A fault to compare with: the store of line 62 (ZM) left out.
PrepareStepSkipsZM(s, a, i) ==
    IF i = 8 THEN InputStores(a)[9]
    ELSE IF i <= 12 THEN InputStores(a)[i] ELSE DerivedStep(s, i - 12)

\* The i-th store of skybrightness_prepare(&s, a...), in program order: the
\* field and the value.  The derived values are computed from the fields
\* read back on lines 70-77.
PrepareStep(s, a, i) ==
    IF i <= 12 THEN InputStores(a)[i] ELSE DerivedStep(s, i - 12)

\* The fields skybrightness_get_luminance reads, in program order: lines 115,
\* 116, 118, 121, 127, 131, 132, 138, 151 and 157.
ReadOrder == <<"AM", "ZM", "ZS", "Y", "K", "XM", "XS", "k_BN", "k_BM", "k_BT">>

LastRead == Len(ReadOrder)

\* Positions of the query thread after its last read and after its return.
Computing == LastRead + 1

AfterReturn == LastRead + 2

\* The query thread is inside skybrightness_get_luminance.
Querying == qry.pc \in 1..Computing

\* The prepare thread is inside skybrightness_prepare.
Preparing == prep.pc # 0

\* The prepare thread enters skybrightness_prepare(&shared, a...) with
\* arguments other than those of its last call.
PrepareCall(a) ==
    /\ ~Preparing
    /\ prep.n < MaxPrepares
    /\ prep.n > 0 => a # prep.a
    /\ prep' = [pc |-> 1, n |-> prep.n + 1, a |-> a, hist |-> Append(prep.hist, a)]
    /\ qry' = [qry EXCEPT !.overlap = @ \/ Querying]
    /\ UNCHANGED <<shared, gen, seqVars>>

\* One store of lines 55-101; the call returns after the last one.
PrepareStore ==
    /\ Preparing
    /\ \E st \in {PrepareStep(shared, prep.a, prep.pc)} :
          /\ shared' = [shared EXCEPT ![st[1]] = st[2]]
          /\ gen' = [gen EXCEPT ![st[1]] = prep.n]
    /\ prep' = [prep EXCEPT !.pc = IF @ = LastStore THEN 0 ELSE @ + 1]
    /\ UNCHANGED <<qry, seqVars>>

\* The query thread enters skybrightness_get_luminance(&shared, q...); the
\* session was prepared at least once.
QueryCall ==
    /\ ~Querying
    /\ prep.n > 1 \/ (prep.n = 1 /\ ~Preparing)
    /\ qry' = [qry EXCEPT !.pc = 1, !.snap = Blank,
                          !.tag = [f \in FieldSet |-> 0], !.overlap = Preparing]
    /\ UNCHANGED <<shared, gen, prep, seqVars>>

\* One read of a field of the session into a local.
QueryRead ==
    /\ qry.pc \in 1..LastRead
    /\ qry' = [qry EXCEPT !.pc = @ + 1,
                          !.snap[ReadOrder[qry.pc]] = shared[ReadOrder[qry.pc]],
                          !.tag[ReadOrder[qry.pc]] = gen[ReadOrder[qry.pc]]]
    /\ UNCHANGED <<shared, gen, prep, seqVars>>

\* Lines 122-183 on the locals, and the return.
QueryReturn ==
    /\ qry.pc = Computing
    /\ qry' = [qry EXCEPT !.pc = AfterReturn,
                          !.ret = skybrightness_get_luminance(qry.snap, ConcQuery).ret]
    /\ UNCHANGED <<shared, gen, prep, seqVars>>

NextConc ==
    \/ \E a \in ConcArgs : PrepareCall(a)
    \/ PrepareStore
    \/ QueryCall
    \/ QueryRead
    \/ QueryReturn

SpecConc == Init /\ [][NextConc]_vars

(***************************************************************************)
(* Properties                                                              *)
(***************************************************************************)
\* The queries of session s on record: the first and the last since its
\* last prepare.
CallsOf(s) ==
    {firstQ[s][i] : i \in DOMAIN firstQ[s]} \cup {lastQ[s][i] : i \in DOMAIN lastQ[s]}

Calls == UNION {CallsOf(s) : s \in Sessions}

Prepared == {s \in Sessions : lastArgs[s] # <<>>}

FMin(a, b) == IF FLt(b, a) THEN b ELSE a

TwilightAdded(c) ==
    /\ FGt(c.BD, c.BT)
    /\ c.B0 = FAdd(c.BN, c.BT)
    /\ c.B0 # FAdd(c.BN, c.BD)

DaylightAdded(c) ==
    /\ FGt(c.BT, c.BD)
    /\ c.B0 = FAdd(c.BN, c.BD)
    /\ c.B0 # FAdd(c.BN, c.BT)

\* C1, as the code has it: the total brightness before the Moon term is the
\* dark-night term BN plus the SMALLER of the twilight term BT and the
\* daylight term BD (lines 168-171 add BT when BD > BT and BD otherwise).
TotalAddsSmaller == \A c \in Calls : c.B0 = FAdd(c.BN, FMin(c.BT, c.BD))

\* C1, reached: session A was queried by night, where daylight exceeds
\* twilight and twilight is added, and session B by day, where twilight
\* exceeds daylight and daylight is added; the other term would have given
\* another total in both.
TotalAddsSmallerSeen ==
    /\ \E c \in CallsOf("A") : TwilightAdded(c)
    /\ \E c \in CallsOf("B") : DaylightAdded(c)

\* C1 as stated: the total before the Moon term is BN plus the larger of BT
\* and BD.
TotalAddsLarger == \A c \in Calls : c.B0 = FAdd(c.BN, max(c.BT, c.BD))

\* The total with the Moon term added as stated: weight 1 below 80 degrees,
\* (90 - ZM) / 10 from 80 to 90 degrees, 0 above.
SpecifiedMoonBlend(B0, BM, ZM) ==
    IF FLt(ZM, FInt(80)) THEN FAdd(B0, BM)
    ELSE IF FLe(ZM, FInt(90))
         THEN FAdd(B0, FDiv(FMul(BM, FSub(FInt(90), ZM)), FInt(10)))
         ELSE B0

\* C2 as stated: the moonlight term BM is added with weight 1 for ZM below
\* 80 degrees, weight (90 - ZM) / 10 for ZM between 80 and 90 degrees and
\* weight 0 for ZM above 90 degrees.
MoonWeightAsStated == \A c \in Calls : c.B = SpecifiedMoonBlend(c.B0, c.BM, c.ZM)

\* C2, where the code departs from it: with the Moon at exactly 80 degrees
\* neither line 172 (ZM < 80) nor line 176 (ZM > 80) adds the moonlight, so a
\* positive moonlight term that would change the total is left out.
MoonDroppedAt80 ==
    \E c \in Calls :
        /\ c.ZM = FInt(80)
        /\ FGt(c.BM, FZero)
        /\ c.B = c.B0
        /\ FAdd(c.B0, c.BM) # c.B0

\* The weight lines 172-176 give the moonlight term: what they add to a zero
\* total for a moonlight term of 1.
MoonWeight(ZM) == MoonBlend(FZero, FOne, ZM)

\* C3 as stated: the weight of the moonlight term does not increase as ZM
\* increases, all other inputs fixed (sessions A and B of a scenario differ
\* in ZM only, or not in ZM).
MoonWeightNonIncreasing ==
    \A c \in CallsOf("A"), d \in CallsOf("B") :
        FLe(c.ZM, d.ZM) => FLe(MoonWeight(d.ZM), MoonWeight(c.ZM))

\* C3, where the code departs from it: the weight is 1 just below 80 degrees,
\* 0 at exactly 80 degrees (session A, whose total got no moonlight) and
\* positive again just above (session B, whose total got moonlight).
MoonWeightRises ==
    /\ MoonWeight(FMul(MoonZeniths[2], DR)) = FOne
    /\ \E c \in CallsOf("A"), d \in CallsOf("B") :
          /\ c.ZM = FInt(80)
          /\ FLt(c.ZM, d.ZM)
          /\ MoonWeight(c.ZM) = FZero
          /\ FGt(MoonWeight(d.ZM), FZero)
          /\ c.B = c.B0
          /\ d.B # d.B0

\* C4, as the code has it: after prepare, XM is exactly 40 for every Moon
\* zenith distance strictly above 90 degrees and the secant with correction
\* for every zenith distance up to and including 90 degrees; XS likewise from
\* the zenith distance of the Sun; each depends on its own body only.
AirmassClampedAbove90 ==
    \A s \in Prepared :
        /\ FGt(sb[s].ZM, FInt(90)) => sb[s].XM = SENTINEL
        /\ FLe(sb[s].ZM, FInt(90)) => sb[s].XM = Secant(sb[s].ZM)
        /\ FGt(sb[s].ZS, FInt(90)) => sb[s].XS = SENTINEL
        /\ FLe(sb[s].ZS, FInt(90)) => sb[s].XS = Secant(sb[s].ZS)

\* C4, reached: a session prepared with the Moon at exactly 90 degrees holds
\* the secant value, which is not 40, for the Moon, and 40 for the Sun, which
\* is above 90 degrees.
AirmassAt90Unclamped ==
    \E s \in Prepared :
        /\ sb[s].ZM = FInt(90)
        /\ sb[s].XM = Secant(FInt(90))
        /\ sb[s].XM # SENTINEL
        /\ FGt(sb[s].ZS, FInt(90))
        /\ sb[s].XS = SENTINEL

\* C4 as stated: XM and XS are exactly 40 for every zenith distance greater
\* than or equal to 90 degrees and the secant with correction below.
AirmassClampedFrom90 ==
    \A s \in Prepared :
        /\ FLe(FInt(90), sb[s].ZM) => sb[s].XM = SENTINEL
        /\ FLt(sb[s].ZM, FInt(90)) => sb[s].XM = Secant(sb[s].ZM)
        /\ FLe(FInt(90), sb[s].ZS) => sb[s].XS = SENTINEL
        /\ FLt(sb[s].ZS, FInt(90)) => sb[s].XS = Secant(sb[s].ZS)

\* Every query on record returned what the session as it is now and the
\* query's arguments give.
QueryDeterminedBySession ==
    \A s \in Sessions : \A c \in CallsOf(s) :
        c.ret = skybrightness_get_luminance(sb[s], c.q).ret

\* A step changes the fields of a session only if it is a prepare of that
\* session (with other arguments than its last): no query changes a field.
FieldsChangeByPrepareOnly ==
    \A s \in Sessions : sb'[s] # sb[s] => lastArgs'[s] # lastArgs[s]

\* C5: skybrightness_get_luminance leaves every field of the session as it
\* was, so every query between two prepares, the first as well as the last,
\* returns the value the session contents and its own arguments determine.
GetLuminanceReadOnly ==
    []QueryDeterminedBySession /\ [][FieldsChangeByPrepareOnly]_vars

\* C5, reached: a session was queried for two directions, got two results,
\* and still holds what its prepare stored.
QueriedTwice ==
    \E s \in Prepared : \E c \in CallsOf(s), d \in CallsOf(s) :
        /\ c.q # d.q
        /\ c.ret # d.ret
        /\ sb[s] = skybrightness_prepare(Blank, lastArgs[s][1])

\* The session r holds the inputs of prepare(a) and the derived fields of
\* its inputs.
HoldsPrepare(r, a) ==
    /\ \A i \in 1..12 : r[InputStores(a)[i][1]] = InputStores(a)[i][2]
    /\ r.K = ExtinctionK(r)
    /\ r.XM = Airmass(r.ZM)
    /\ r.XS = Airmass(r.ZS)

\* C6: after any sequence of completed calls with at least one prepare, every
\* stored input is the one the most recent prepare was given and K, XM and XS
\* are the functions of the stored inputs.
SessionFromLastPrepare == \A s \in Prepared : HoldsPrepare(sb[s], lastArgs[s][1])

\* C6, reached: a session prepared, prepared again with other arguments and
\* queried holds the fields of the second prepare, which are not those of the
\* first.
Reprepared ==
    \E s \in Prepared : \E a \in PrepareArgs \ {lastArgs[s][1]} :
        /\ overwrote[s]
        /\ lastQ[s] # <<>>
        /\ HoldsPrepare(sb[s], lastArgs[s][1])
        /\ \A f \in FieldSet : sb[s][f] # skybrightness_prepare(Blank, a)[f]

\* The distance the formulas use for the argument dist (radians) is at least
\* 1 degree, and dist converted to degrees when that is at least 1.
ClampedFrom(R, dist) ==
    /\ FLe(FOne, R)
    /\ FLe(FOne, FMul(dist, DR)) => R = FMul(dist, DR)

\* C7: for every moon_dist and sun_dist, zero and negative included, RM and RS
\* are at least 1 degree, the divisors RM squared (line 144) and RS (line
\* 156) are not zero, and a distance of at least 1 degree is used unchanged.
DistancesAtLeastOneDegree ==
    \A c \in Calls :
        /\ ClampedFrom(c.RM, c.q.moon_dist)
        /\ ClampedFrom(c.RS, c.q.sun_dist)
        /\ FLe(FOne, pow2(c.RM))
        /\ c.RS # FZero

\* C7, reached: a query at the centre of the Moon's disk (moon_dist 0) used
\* RM = 1, and used its sun_dist of more than 1 degree unchanged.
DistanceClamped ==
    \E c \in Calls :
        /\ c.q.moon_dist = FZero
        /\ c.RM = FOne
        /\ FGt(FMul(c.q.sun_dist, DR), FOne)
        /\ c.RS = FMul(c.q.sun_dist, DR)

\* What is known of session t is the same after the step.
Untouched(t) ==
    /\ sb'[t] = sb[t]
    /\ lastArgs'[t] = lastArgs[t]
    /\ overwrote'[t] = overwrote[t]
    /\ firstQ'[t] = firstQ[t]
    /\ lastQ'[t] = lastQ[t]

\* Every call leaves all sessions but one as they were.
OneSessionPerCall == \E s \in Sessions : \A t \in Sessions \ {s} : Untouched(t)

\* The fields of every prepared session and the results of its queries are
\* those its own last prepare and its own queries determine.
SessionsOnTheirOwn ==
    \A s \in Prepared :
        /\ sb[s] = skybrightness_prepare(Blank, lastArgs[s][1])
        /\ \A c \in CallsOf(s) :
              c.ret = skybrightness_get_luminance(
                          skybrightness_prepare(Blank, lastArgs[s][1]), c.q).ret

\* C8: under any interleaving of calls on session A with calls on session B,
\* a call changes nothing of the other session, and the fields of a session
\* and the results of its queries are what its own calls determine.
SessionsDoNotInterfere == []SessionsOnTheirOwn /\ [][OneSessionPerCall]_vars

\* C8, reached: A was prepared twice and queried, B was prepared with other
\* arguments and queried for two directions, and the results differ.
BothSessionsUsed ==
    /\ overwrote["A"]
    /\ lastArgs["B"] \notin {<<>>, lastArgs["A"]}
    /\ \E c \in CallsOf("B"), d \in CallsOf("B") : c.q # d.q
    /\ \E c \in CallsOf("A"), d \in CallsOf("B") : c.q = d.q /\ c.ret # d.ret

\* Session B of the scenario is session A with darknight_brightness_coef
\* doubled.
Doubling == scenario.b = DoubledDarkNight(scenario.a)

\* C9: with darknight_brightness_coef doubled and all else equal, BN is
\* exactly doubled and BM, BT and BD are unchanged; when the total is the
\* dark-night term alone (nothing of Sun and Moon in it), the returned
\* luminance is doubled.
DarkNightScalesLinearly ==
    Doubling =>
        \A c \in CallsOf("A"), d \in CallsOf("B") :
            /\ d.BN = FScale2(c.BN, 1)
            /\ d.BM = c.BM
            /\ d.BT = c.BT
            /\ d.BD = c.BD
            /\ c.B = c.BN => d.ret = FScale2(c.ret, 1)

\* C9, reached: both sessions were queried on a night with Sun and Moon below
\* the horizon; the total of A is its positive dark-night term and B returned
\* twice what A returned.
DoubledLuminance ==
    /\ Doubling
    /\ \E c \in CallsOf("A"), d \in CallsOf("B") :
          /\ FGt(c.BN, FZero)
          /\ c.B = c.BN
          /\ d.BN = FScale2(c.BN, 1)
          /\ d.ret = FScale2(c.ret, 1)
          /\ FGt(d.ret, c.ret)

\* The query that returned did not run while a prepare ran.
QuietQuery == qry.pc = AfterReturn /\ ~qry.overlap

\* C10: when the query ran from call to return with no prepare running, all
\* the fields it read were stored by one and the same prepare.
QuietQueryReadsOnePrepare ==
    QuietQuery =>
        \E g \in 1..prep.n : \A i \in 1..LastRead : qry.tag[ReadOrder[i]] = g

\* C10, reached: a query that ran during the second prepare returned having
\* read the Moon zenith distance ZM of the second prepare and the Moon
\* airmass XM of the first, a pair no completed prepare stores.
MixedRead ==
    /\ qry.pc = AfterReturn
    /\ qry.tag["ZM"] = 2
    /\ qry.tag["XM"] = 1
    /\ qry.snap.ZM = FMul(prep.hist[2].dist_moon_zenith, DR)
    /\ qry.snap.XM = Airmass(FMul(prep.hist[1].dist_moon_zenith, DR))
    /\ qry.snap.XM # Airmass(qry.snap.ZM)
====
